---- MODULE Spec2Model ----
(***************************************************************************)
(* Venue booking for Geeta University: the two page components of the      *)
(* repository as one state machine.                                        *)
(*                                                                         *)
(*   variant A  src/src/components/VenueBookingSystem.tsx  (the simple     *)
(*              wizard: venue -> date -> slot -> form, soft cancel)        *)
(*   variant B  src/unnamed/part_000  (the richer page: booking dialog,    *)
(*              approve / reject by role, hard delete), with the session   *)
(*              of src/src/hooks/useAuth.tsx                               *)
(*                                                                         *)
(* Both files use the names bookings, selectedVenue, selectedDate,         *)
(* selectedTimeSlot, activeTab and isTimeSlotBooked; those carry the       *)
(* suffix _A or _B here.  Every other name is the source's.                *)
(*                                                                         *)
(* A run mounts one of the two components (variant).  Spec drives it       *)
(* through the controls it renders; SpecHandlers calls the handlers        *)
(* directly, with any argument, as a unit test would.                      *)
(* SpecStartup starts at the construction of the component and follows its *)
(* mount effects step by step; SpecTabs opens variant A in two tabs over   *)
(* one storage key.                                                        *)
(***************************************************************************)
EXTENDS Integers, Sequences, FiniteSets, TLC

VARIABLES
  variant,            \* which component is mounted: "A" or "B"
  now,                \* what Date.now() returns, in ms since the page was opened
  \* variant A
  activeTab_A, selectedVenue_A, selectedDate_A, selectedTimeSlot_A,
  bookings_A, showBookingForm, bookingForm,
  storage,            \* localStorage['geeta_university_bookings']
  savedBookings,      \* what the load effect read from it at mount
  failed,             \* an error was thrown and not caught: nothing is rendered
  pc,                 \* where the mounted component is in its mount effects
  queued,             \* the setBookings calls waiting for the next render
  background,         \* the component's state in a second tab that is not in front
  \* useAuth
  user, isAuthenticated, isLoading,
  session,            \* localStorage['isAuthenticated'], ['userName'], ['userType']
  \* variant B
  bookings_B, selectedVenue_B, selectedDate_B, selectedTimeSlot_B,
  isBookingDialogOpen, activeTab_B

varsA == <<activeTab_A, selectedVenue_A, selectedDate_A, selectedTimeSlot_A,
           bookings_A, showBookingForm, bookingForm>>
varsAuth == <<user, isAuthenticated, isLoading, session>>
varsB == <<varsAuth, bookings_B, selectedVenue_B, selectedDate_B,
           selectedTimeSlot_B, isBookingDialogOpen, activeTab_B>>
varsStore == <<storage, savedBookings, failed>>
varsMount == <<pc, queued, background>>
vars == <<variant, now, varsA, varsB, varsStore, varsMount>>

----------------------------------------------------------------------------
(* Bounds *)

\* the clock runs from 1 to MaxTime
MaxTime == 2
\* a booking can be submitted while the list holds fewer than MaxBookings
\* bookings submitted in this visit of the page
MaxBookings == 2
\* the same, where the handlers are called directly
MaxDirectBookings == 1

----------------------------------------------------------------------------
(* Static data *)

null == "null"

\* VENUES[*].id of variant A
VENUES == <<"auditorium", "e-block-seminar", "d-block-seminar">>
\* venues[*].id of variant B
venues == <<"1", "2", "3", "4", "5", "6">>

venueName(id) ==
  CASE id = "auditorium" -> "Main Auditorium"
    [] id = "e-block-seminar" -> "E Block Seminar Hall"
    [] id = "d-block-seminar" -> "D Block Seminar Hall"
    [] id = "1" -> "Main Auditorium"
    [] id = "2" -> "Conference Hall"
    [] id = "3" -> "Computer Lab 1"
    [] id = "4" -> "Classroom 101"
    [] id = "5" -> "Sports Ground"
    [] id = "6" -> "Seminar Hall"
    [] OTHER -> "undefined"

\* TIME_SLOTS[*].id of variant A
TIME_SLOTS == <<"9-10", "10-11", "11-12", "12-13", "13-14", "14-15", "15-16",
                "16-17", "17-18">>
\* timeSlots of variant B
timeSlots == <<"09:00-10:00", "10:00-11:00", "11:00-12:00", "12:00-13:00",
               "13:00-14:00", "14:00-15:00", "15:00-16:00", "16:00-17:00",
               "17:00-18:00">>

\* The calendar days on offer, as the 'YYYY-MM-DD' strings the code stores:
\* entry i is what toISOString().split('T')[0] gives for weekDates[i - 1] in
\* variant A, and a day at or after the date input's min in variant B.
weekDates == <<"2024-03-10", "2024-03-11", "2024-03-12", "2024-03-13",
               "2024-03-14", "2024-03-15", "2024-03-16">>

\* The venues, days and time slots that are picked: two venues, one day,
\* and two slots in variant A, one in variant B.
VenuesA == {VENUES[1], VENUES[2]}
DatesA == {1}                          \* indices into weekDates
SlotsA == {TIME_SLOTS[1], TIME_SLOTS[2]}
VenuesB == {venues[1], venues[2]}
DatesB == {weekDates[1]}
SlotsB == {timeSlots[1]}

MOCK_USER == [id |-> "hod_001", name |-> "Dr. Rajesh Kumar",
              department |-> "Computer Science", role |-> "HOD"]

\* what is typed into the Name field of variant A
BookerNames == {MOCK_USER.name, "Dr. Meera Singh"}

\* Text typed into a purpose field, as a sequence of characters.
Purposes == {<<>>, <<" ">>, <<"B", "M">>}

----------------------------------------------------------------------------
(* Helpers of the language and the library *)

Range(s) == {s[i] : i \in DOMAIN s}

\* String.prototype.trim on a sequence of characters
RECURSIVE trimStart(_)
trimStart(s) ==
  IF s = <<>> THEN <<>>
  ELSE IF Head(s) = " " THEN trimStart(Tail(s)) ELSE s

RECURSIVE trimEnd(_)
trimEnd(s) ==
  IF s = <<>> THEN <<>>
  ELSE IF s[Len(s)] = " " THEN trimEnd(SubSeq(s, 1, Len(s) - 1)) ELSE s

trim(s) == trimEnd(trimStart(s))

\* new Date().toISOString() at clock value t
toISOString(t) == "2024-03-10T09:00:00.00" \o ToString(t) \o "Z"

\* Math.random().toString(36).substr(2, 9): the suffixes a call can give
RandomSuffixes == {"k3j9x0q2a"}

\* A callback of one argument is given by its graph over the elements of the
\* list: a predicate as the set of the elements it accepts, a mapping as a
\* function.

\* Array.prototype.some: the scan stops at the first element that matches
some(list, accepted) ==
  LET scan[i \in 1..(Len(list) + 1)] ==
        IF i > Len(list) THEN FALSE
        ELSE IF list[i] \in accepted THEN TRUE ELSE scan[i + 1]
  IN scan[1]

\* Array.prototype.map
map(list, f) == [i \in DOMAIN list |-> f[list[i]]]

\* Array.prototype.filter
filter(list, accepted) ==
  LET keep[i \in 0..Len(list)] ==
        IF i = 0 THEN <<>>
        ELSE IF list[i] \in accepted THEN Append(keep[i - 1], list[i])
             ELSE keep[i - 1]
  IN keep[Len(list)]

----------------------------------------------------------------------------
(* Variant A: src/src/components/VenueBookingSystem.tsx *)

\* generateBookingId() at clock value t when Math.random() gives suffix r
generateBookingId(t, r) == "booking_" \o ToString(t) \o "_" \o r

\* isTimeSlotBooked with the status test written as === 'Pending'
isTimeSlotBooked_A_PendingOnly(venueId, date, timeSlot) ==
  some(bookings_A,
       {booking \in Range(bookings_A) :
         /\ booking.venueId = venueId
         /\ booking.date = date
         /\ booking.timeSlot = timeSlot
         /\ booking.status = "Pending"})

isTimeSlotBooked_A(venueId, date, timeSlot) ==
  some(bookings_A,
       {booking \in Range(bookings_A) :
         /\ booking.venueId = venueId
         /\ booking.date = date
         /\ booking.timeSlot = timeSlot
         /\ booking.status # "Cancelled"})

\* handleVenueSelect without the reset of the slot
handleVenueSelect_KeepsSlot(venue) ==
  /\ selectedVenue_A' = venue
  /\ selectedDate_A' = ""
  /\ showBookingForm' = FALSE
  /\ UNCHANGED <<activeTab_A, selectedTimeSlot_A, bookings_A, bookingForm>>

handleVenueSelect(venue) ==
  /\ selectedVenue_A' = venue
  /\ selectedDate_A' = ""
  /\ selectedTimeSlot_A' = ""
  /\ showBookingForm' = FALSE
  /\ UNCHANGED <<activeTab_A, bookings_A, bookingForm>>

\* handleDateSelect without the reset of the slot and the form
handleDateSelect_KeepsSlot(date) ==
  /\ selectedDate_A' = weekDates[date]
  /\ UNCHANGED <<activeTab_A, selectedVenue_A, selectedTimeSlot_A, bookings_A,
                 showBookingForm, bookingForm>>

\* date is the index of the clicked day in weekDates
handleDateSelect(date) ==
  /\ selectedDate_A' = weekDates[date]
  /\ selectedTimeSlot_A' = ""
  /\ showBookingForm' = FALSE
  /\ UNCHANGED <<activeTab_A, selectedVenue_A, bookings_A, bookingForm>>

\* handleTimeSlotSelect without the call of isTimeSlotBooked
handleTimeSlotSelect_NoCheck(timeSlotId) ==
  IF selectedVenue_A # null /\ selectedDate_A # ""
  THEN /\ selectedTimeSlot_A' = timeSlotId
       /\ showBookingForm' = TRUE
       /\ UNCHANGED <<activeTab_A, selectedVenue_A, selectedDate_A,
                      bookings_A, bookingForm>>
  ELSE UNCHANGED varsA

handleTimeSlotSelect(timeSlotId) ==
  IF selectedVenue_A # null /\ selectedDate_A # ""
  THEN IF isTimeSlotBooked_A(selectedVenue_A, selectedDate_A, timeSlotId)
       THEN UNCHANGED varsA                       \* toast, return
       ELSE /\ selectedTimeSlot_A' = timeSlotId
            /\ showBookingForm' = TRUE
            /\ UNCHANGED <<activeTab_A, selectedVenue_A, selectedDate_A,
                           bookings_A, bookingForm>>
  ELSE UNCHANGED varsA

\* handleBookingSubmit with the purpose tested without trim()
handleBookingSubmit_NoTrim(id) ==
  IF \/ selectedVenue_A = null
     \/ selectedDate_A = ""
     \/ selectedTimeSlot_A = ""
     \/ bookingForm.purpose = <<>>
  THEN UNCHANGED varsA
  ELSE /\ bookings_A' =
            Append(bookings_A,
                   [id |-> id,
                    venueId |-> selectedVenue_A,
                    venueName |-> venueName(selectedVenue_A),
                    date |-> selectedDate_A,
                    timeSlot |-> selectedTimeSlot_A,
                    bookerName |-> bookingForm.bookerName,
                    department |-> bookingForm.department,
                    purpose |-> bookingForm.purpose,
                    status |-> "Pending",
                    createdAt |-> toISOString(now)])
       /\ bookingForm' = [bookingForm EXCEPT !.purpose = <<>>]
       /\ showBookingForm' = FALSE
       /\ selectedTimeSlot_A' = ""
       /\ UNCHANGED <<activeTab_A, selectedVenue_A, selectedDate_A>>

\* handleBookingSubmit without the reset of the slot and the form
handleBookingSubmit_KeepsSlot(id) ==
  IF \/ selectedVenue_A = null
     \/ selectedDate_A = ""
     \/ selectedTimeSlot_A = ""
     \/ trim(bookingForm.purpose) = <<>>
  THEN UNCHANGED varsA
  ELSE /\ bookings_A' =
            Append(bookings_A,
                   [id |-> id,
                    venueId |-> selectedVenue_A,
                    venueName |-> venueName(selectedVenue_A),
                    date |-> selectedDate_A,
                    timeSlot |-> selectedTimeSlot_A,
                    bookerName |-> bookingForm.bookerName,
                    department |-> bookingForm.department,
                    purpose |-> bookingForm.purpose,
                    status |-> "Pending",
                    createdAt |-> toISOString(now)])
       /\ UNCHANGED <<activeTab_A, selectedVenue_A, selectedDate_A,
                      selectedTimeSlot_A, showBookingForm, bookingForm>>

\* id is what generateBookingId() returns in this call
handleBookingSubmit(id) ==
  IF \/ selectedVenue_A = null
     \/ selectedDate_A = ""
     \/ selectedTimeSlot_A = ""
     \/ trim(bookingForm.purpose) = <<>>
  THEN UNCHANGED varsA                            \* toast, return
  ELSE LET newBooking == [id |-> id,
                          venueId |-> selectedVenue_A,
                          venueName |-> venueName(selectedVenue_A),
                          date |-> selectedDate_A,
                          timeSlot |-> selectedTimeSlot_A,
                          bookerName |-> bookingForm.bookerName,
                          department |-> bookingForm.department,
                          purpose |-> bookingForm.purpose,
                          status |-> "Pending",
                          createdAt |-> toISOString(now)]
       IN /\ bookings_A' = Append(bookings_A, newBooking)
          /\ bookingForm' = [bookingForm EXCEPT !.purpose = <<>>]
          /\ showBookingForm' = FALSE
          /\ selectedTimeSlot_A' = ""
          /\ UNCHANGED <<activeTab_A, selectedVenue_A, selectedDate_A>>

\* handleCancelBooking as a hard delete
handleCancelBooking_Remove(bookingId) ==
  /\ bookings_A' = filter(bookings_A,
                          {booking \in Range(bookings_A) : booking.id # bookingId})
  /\ UNCHANGED <<activeTab_A, selectedVenue_A, selectedDate_A,
                 selectedTimeSlot_A, showBookingForm, bookingForm>>

handleCancelBooking(bookingId) ==
  /\ bookings_A' = map(bookings_A,
                       [booking \in Range(bookings_A) |->
                         IF booking.id = bookingId
                         THEN [booking EXCEPT !.status = "Cancelled"]
                         ELSE booking])
  /\ UNCHANGED <<activeTab_A, selectedVenue_A, selectedDate_A,
                 selectedTimeSlot_A, showBookingForm, bookingForm>>

\* the onChange handlers of the Name and Purpose fields
setBookingForm(field, value) ==
  /\ bookingForm' = [bookingForm EXCEPT ![field] = value]
  /\ UNCHANGED <<activeTab_A, selectedVenue_A, selectedDate_A,
                 selectedTimeSlot_A, bookings_A, showBookingForm>>

setShowBookingForm(value) ==
  /\ showBookingForm' = value
  /\ UNCHANGED <<activeTab_A, selectedVenue_A, selectedDate_A,
                 selectedTimeSlot_A, bookings_A, bookingForm>>

setActiveTab_A(tab) ==
  /\ activeTab_A' = tab
  /\ UNCHANGED <<selectedVenue_A, selectedDate_A, selectedTimeSlot_A,
                 bookings_A, showBookingForm, bookingForm>>

\* The keys of a Booking, in the order handleBookingSubmit writes them
bookingKeys == <<"id", "venueId", "venueName", "date", "timeSlot", "bookerName",
                 "department", "purpose", "status", "createdAt">>

\* A value of local storage is null (no such key) or a text.  A text that
\* JSON.stringify wrote is held as what it spells: the objects of the array
\* in order, each the sequence of its key / value pairs in order.
storageNull == [kind |-> "null"]
storageText(text) == [kind |-> "text", text |-> text]

\* JSON.stringify(bookings)
JSON_stringify(list) ==
  [kind |-> "array",
   items |-> [i \in DOMAIN list |->
                [k \in DOMAIN bookingKeys |->
                   <<bookingKeys[k], list[i][bookingKeys[k]]>>]]]

\* texts that JSON.parse rejects with a SyntaxError, and texts it parses to
\* a value that is not an array
MalformedTexts == {"[{\"id\":"}
NonArrayTexts == {"{}"}

\* JSON.parse of a text that spells an array of objects: each object gets
\* the keys of its pairs, the last pair of a key giving the value
JSON_parse(value) ==
  [i \in DOMAIN value.items |->
     LET pairs == value.items[i]
         last(key) == CHOOSE j \in DOMAIN pairs :
                        /\ pairs[j][1] = key
                        /\ \A later \in DOMAIN pairs :
                             later > j => pairs[later][1] # key
     IN [key \in {pairs[j][1] : j \in DOMAIN pairs} |-> pairs[last(key)][2]]]

\* the save effect written so that it keeps the stored bookings that the
\* list does not have, in front of the list
saveEffect_Merge(rerun) ==
  storage' =
    IF rerun
    THEN JSON_stringify(
           filter(JSON_parse(storage),
                  {booking \in Range(JSON_parse(storage)) :
                     \A i \in DOMAIN bookings_A' : bookings_A'[i].id # booking.id})
             \o bookings_A')
    ELSE storage

\* the save effect written so that it stores the list of the render before
saveEffect_Stale(rerun) ==
  storage' = IF rerun THEN JSON_stringify(bookings_A) ELSE storage

\* The save effect.  It runs after a render in which bookings is another
\* array than in the render before (rerun), and writes the new list.
saveEffect(rerun) ==
  storage' = IF rerun THEN JSON_stringify(bookings_A') ELSE storage

\* The ids generateBookingId() can return now: the random suffix makes the
\* id differ from every id already in the list.
NewBookingIds ==
  {generateBookingId(now, r) : r \in RandomSuffixes}
    \ {bookings_A[i].id : i \in DOMAIN bookings_A}

\* the bookings of the list that were submitted in this visit of the page
madeHere_A ==
  filter(bookings_A,
         {booking \in Range(bookings_A) : booking.createdAt # toISOString(0)})

\* renderMyBookings: the rows shown, and the row's Cancel button
userBookings ==
  filter(bookings_A,
         {booking \in Range(bookings_A) : booking.bookerName = MOCK_USER.name})

CancelButtonShown(booking) == booking.status = "Pending"

\* the browser's check of the form's required fields before onSubmit fires
FormValid_A ==
  /\ bookingForm.bookerName # ""
  /\ bookingForm.department # ""
  /\ bookingForm.purpose # <<>>

\* the mount effects are done: the page is on the screen and takes input
mounted == pc = "mounted"

(* The controls variant A renders *)

ClickTab_A ==
  /\ variant = "A" /\ mounted /\ ~failed
  /\ \E tab \in {"booking", "my-bookings"} : setActiveTab_A(tab)
  /\ UNCHANGED <<variant, now, varsMount, varsB, varsStore>>

ClickVenueCard ==
  /\ variant = "A" /\ mounted /\ ~failed /\ activeTab_A = "booking"
  /\ \E venue \in VenuesA : handleVenueSelect(venue)
  /\ UNCHANGED <<variant, now, varsMount, varsB, varsStore>>

ClickDay ==
  /\ variant = "A" /\ mounted /\ ~failed /\ activeTab_A = "booking"
  /\ selectedVenue_A # null
  /\ \E date \in DatesA : handleDateSelect(date)
  /\ UNCHANGED <<variant, now, varsMount, varsB, varsStore>>

ClickTimeSlot_A ==
  /\ variant = "A" /\ mounted /\ ~failed /\ activeTab_A = "booking"
  /\ selectedVenue_A # null /\ selectedDate_A # ""
  /\ \E slot \in SlotsA :
       /\ ~isTimeSlotBooked_A(selectedVenue_A, selectedDate_A, slot)
       /\ handleTimeSlotSelect(slot)
  /\ UNCHANGED <<variant, now, varsMount, varsB, varsStore>>

TypeInForm ==
  /\ variant = "A" /\ mounted /\ ~failed /\ activeTab_A = "booking" /\ showBookingForm
  /\ \/ \E name \in BookerNames : setBookingForm("bookerName", name)
     \/ \E purpose \in Purposes : setBookingForm("purpose", purpose)
  /\ UNCHANGED <<variant, now, varsMount, varsB, varsStore>>

ClickFormCancel ==
  /\ variant = "A" /\ mounted /\ ~failed /\ activeTab_A = "booking" /\ showBookingForm
  /\ setShowBookingForm(FALSE)
  /\ UNCHANGED <<variant, now, varsMount, varsB, varsStore>>

ClickSubmit_A ==
  /\ variant = "A" /\ mounted /\ ~failed /\ activeTab_A = "booking" /\ showBookingForm
  /\ FormValid_A
  /\ Len(madeHere_A) < MaxBookings
  /\ \E id \in NewBookingIds : handleBookingSubmit(id)
  /\ saveEffect(bookings_A' # bookings_A)
  /\ UNCHANGED <<variant, now, varsMount, varsB, savedBookings, failed>>

ClickCancelBooking ==
  /\ variant = "A" /\ mounted /\ ~failed /\ activeTab_A = "my-bookings"
  /\ \E i \in DOMAIN userBookings :
       /\ CancelButtonShown(userBookings[i])
       /\ handleCancelBooking(userBookings[i].id)
  /\ saveEffect(TRUE)
  /\ UNCHANGED <<variant, now, varsMount, varsB, savedBookings, failed>>

----------------------------------------------------------------------------
(* The session: src/src/hooks/useAuth.tsx *)

\* user === null
nullUser == [username |-> "", userType |-> ""]

\* checkAuth: the user state after the mount effect, from the three stored keys
checkAuth(authStatus, userName, userType) ==
  IF authStatus = "true" /\ userName # "" /\ userType # ""
  THEN [username |-> userName, userType |-> userType]
  ELSE nullUser

\* the three keys of local storage when nobody is logged in: getItem gives
\* null for each, which the tests of checkAuth treat as they treat ''
noSession == [isAuthenticated |-> "", userName |-> "", userType |-> ""]

\* logout without setUser(null)
logout_KeepsUser ==
  /\ session' = noSession
  /\ isAuthenticated' = FALSE
  /\ UNCHANGED <<user, isLoading, bookings_B, selectedVenue_B, selectedDate_B,
                 selectedTimeSlot_B, isBookingDialogOpen, activeTab_B>>

\* logout: the component renders with user === null until the navigation
\* to /login replaces the page
logout ==
  /\ session' = noSession
  /\ isAuthenticated' = FALSE
  /\ user' = nullUser
  /\ UNCHANGED <<isLoading, bookings_B, selectedVenue_B, selectedDate_B, selectedTimeSlot_B,
                 isBookingDialogOpen, activeTab_B>>

\* what the three keys of local storage hold when the page opens
StoredSessions ==
  {[isAuthenticated |-> "true", userName |-> "Dr. Smith", userType |-> "faculty"],
   [isAuthenticated |-> "true", userName |-> "Prof. Johnson", userType |-> "hod"],
   [isAuthenticated |-> "false", userName |-> "Dr. Smith", userType |-> "faculty"],
   [isAuthenticated |-> "true", userName |-> "", userType |-> "hod"],
   [isAuthenticated |-> "", userName |-> "", userType |-> ""]}

----------------------------------------------------------------------------
(* Variant B: src/unnamed/part_000 *)

\* the initial value of the bookings state
seededBookings ==
  << [id |-> "1", venueId |-> "1", venueName |-> "Main Auditorium",
      date |-> "2024-01-15", timeSlot |-> "09:00-11:00",
      purpose |-> <<"A", "F">>, bookedBy |-> "Dr. Smith",
      status |-> "approved", attendees |-> 300,
      requirements |-> "Stage decoration, sound system",
      contactEmail |-> "dr.smith@geeta.edu",
      department |-> "Cultural Committee"],
     [id |-> "2", venueId |-> "2", venueName |-> "Conference Hall",
      date |-> "2024-01-16", timeSlot |-> "14:00-16:00",
      purpose |-> <<"D", "M">>, bookedBy |-> "Prof. Johnson",
      status |-> "pending", attendees |-> 25,
      requirements |-> "Projector, refreshments",
      contactEmail |-> "prof.johnson@geeta.edu",
      department |-> "Computer Science"] >>

\* Date.now().toString() at clock value t: the page is opened at
\* 2024-03-10T09:00:00Z, 1710061200000 ms after the epoch
DateNowToString(t) == "171006120000" \o ToString(t)

\* the values of the dialog's form fields handed to onSubmitBooking
BookingFormData ==
  {[purpose |-> p, attendees |-> 25, requirements |-> "",
    contactEmail |-> "faculty@geeta.edu", department |-> "Computer Science"] :
     p \in {<<>>, <<"B", "M">>}}

\* isTimeSlotBooked written with find: the first booking on the slot decides
isTimeSlotBooked_B_FirstMatch(venueId, date, timeSlot) ==
  LET onSlot == filter(bookings_B,
                       {booking \in Range(bookings_B) :
                         /\ booking.venueId = venueId
                         /\ booking.date = date
                         /\ booking.timeSlot = timeSlot})
  IN onSlot # <<>> /\ onSlot[1].status # "rejected"

isTimeSlotBooked_B(venueId, date, timeSlot) ==
  some(bookings_B,
       {booking \in Range(bookings_B) :
         /\ booking.venueId = venueId
         /\ booking.date = date
         /\ booking.timeSlot = timeSlot
         /\ booking.status # "rejected"})

handleBookVenue(venue) ==
  /\ selectedVenue_B' = venue
  /\ isBookingDialogOpen' = TRUE
  /\ UNCHANGED <<varsAuth, bookings_B, selectedDate_B, selectedTimeSlot_B, activeTab_B>>

setSelectedDate(value) ==
  /\ selectedDate_B' = value
  /\ UNCHANGED <<varsAuth, bookings_B, selectedVenue_B, selectedTimeSlot_B,
                 isBookingDialogOpen, activeTab_B>>

setSelectedTimeSlot(slot) ==
  /\ selectedTimeSlot_B' = slot
  /\ UNCHANGED <<varsAuth, bookings_B, selectedVenue_B, selectedDate_B,
                 isBookingDialogOpen, activeTab_B>>

setIsBookingDialogOpen(open) ==
  /\ isBookingDialogOpen' = open
  /\ UNCHANGED <<varsAuth, bookings_B, selectedVenue_B, selectedDate_B,
                 selectedTimeSlot_B, activeTab_B>>

setActiveTab_B(tab) ==
  /\ activeTab_B' = tab
  /\ UNCHANGED <<varsAuth, bookings_B, selectedVenue_B, selectedDate_B,
                 selectedTimeSlot_B, isBookingDialogOpen>>

\* onSubmitBooking with the new booking put in front: [newBooking, ...prev]
onSubmitBooking_Prepend(data) ==
  IF selectedVenue_B = null \/ selectedDate_B = "" \/ selectedTimeSlot_B = ""
  THEN UNCHANGED varsB
  ELSE /\ bookings_B' =
            <<[id |-> DateNowToString(now),
               venueId |-> selectedVenue_B,
               venueName |-> venueName(selectedVenue_B),
               date |-> selectedDate_B,
               timeSlot |-> selectedTimeSlot_B,
               purpose |-> data.purpose,
               bookedBy |-> IF user # nullUser THEN user.username
                            ELSE "Unknown User",
               status |-> "pending",
               attendees |-> data.attendees,
               requirements |-> data.requirements,
               contactEmail |-> data.contactEmail,
               department |-> data.department]>> \o bookings_B
       /\ isBookingDialogOpen' = FALSE
       /\ selectedVenue_B' = null
       /\ selectedDate_B' = ""
       /\ selectedTimeSlot_B' = ""
       /\ UNCHANGED <<varsAuth, activeTab_B>>

onSubmitBooking(data) ==
  IF selectedVenue_B = null \/ selectedDate_B = "" \/ selectedTimeSlot_B = ""
  THEN UNCHANGED varsB                            \* return
  ELSE LET newBooking == [id |-> DateNowToString(now),
                          venueId |-> selectedVenue_B,
                          venueName |-> venueName(selectedVenue_B),
                          date |-> selectedDate_B,
                          timeSlot |-> selectedTimeSlot_B,
                          purpose |-> data.purpose,
                          bookedBy |-> IF user # nullUser THEN user.username
                                       ELSE "Unknown User",
                          status |-> "pending",
                          attendees |-> data.attendees,
                          requirements |-> data.requirements,
                          contactEmail |-> data.contactEmail,
                          department |-> data.department]
       IN /\ bookings_B' = Append(bookings_B, newBooking)
          /\ isBookingDialogOpen' = FALSE
          /\ selectedVenue_B' = null
          /\ selectedDate_B' = ""
          /\ selectedTimeSlot_B' = ""
          /\ UNCHANGED <<varsAuth, activeTab_B>>

updateBookingStatus(bookingId, status) ==
  /\ bookings_B' = map(bookings_B,
                       [booking \in Range(bookings_B) |->
                         IF booking.id = bookingId
                         THEN [booking EXCEPT !.status = status]
                         ELSE booking])
  /\ UNCHANGED <<varsAuth, selectedVenue_B, selectedDate_B, selectedTimeSlot_B,
                 isBookingDialogOpen, activeTab_B>>

\* deleteBooking with the comparison of the filter inverted
deleteBooking_KeepsMatch(bookingId) ==
  /\ bookings_B' = filter(bookings_B,
                          {booking \in Range(bookings_B) : booking.id = bookingId})
  /\ UNCHANGED <<varsAuth, selectedVenue_B, selectedDate_B, selectedTimeSlot_B,
                 isBookingDialogOpen, activeTab_B>>

deleteBooking(bookingId) ==
  /\ bookings_B' = filter(bookings_B,
                          {booking \in Range(bookings_B) : booking.id # bookingId})
  /\ UNCHANGED <<varsAuth, selectedVenue_B, selectedDate_B, selectedTimeSlot_B,
                 isBookingDialogOpen, activeTab_B>>

\* the conditions under which a booking's row renders its buttons
\* the Approve / Reject buttons without the test of the role
ApproveRejectShown_AnyRole(booking) == booking.status = "pending"

ApproveRejectShown(booking) ==
  user.userType = "hod" /\ booking.status = "pending"

DeleteShown(booking) ==
  \/ (user # nullUser /\ booking.bookedBy = user.username)
  \/ user.userType = "hod"

\* the bookings of the list that were submitted in this visit of the page
madeHere_B == filter(bookings_B,
                   {booking \in Range(bookings_B) :
                     \A i \in DOMAIN seededBookings :
                       booking.id # seededBookings[i].id})

\* the browser's check of the dialog's required fields before onSubmit fires
FormValid_B(data) ==
  /\ selectedDate_B # ""
  /\ data.purpose # <<>>
  /\ data.attendees >= 1
  /\ data.department # ""
  /\ data.contactEmail # ""

(* The controls variant B renders.  The dialog is modal: while it is open  *)
(* only its own controls can be used.                                      *)

ClickTab_B ==
  /\ variant = "B" /\ mounted /\ ~isBookingDialogOpen
  /\ \E tab \in {"venues", "bookings"} : setActiveTab_B(tab)
  /\ UNCHANGED <<variant, now, varsMount, varsA, varsStore>>

ClickLogout ==
  /\ variant = "B" /\ mounted /\ ~isBookingDialogOpen
  /\ logout
  /\ UNCHANGED <<variant, now, varsMount, varsA, varsStore>>

ClickBookThisVenue ==
  /\ variant = "B" /\ mounted /\ ~isBookingDialogOpen /\ activeTab_B = "venues"
  /\ \E venue \in VenuesB : handleBookVenue(venue)
  /\ UNCHANGED <<variant, now, varsMount, varsA, varsStore>>

ChangeDate ==
  /\ variant = "B" /\ mounted /\ isBookingDialogOpen /\ selectedVenue_B # null
  /\ \E value \in DatesB \cup {""} : setSelectedDate(value)
  /\ UNCHANGED <<variant, now, varsMount, varsA, varsStore>>

ClickTimeSlot_B ==
  /\ variant = "B" /\ mounted /\ isBookingDialogOpen /\ selectedVenue_B # null
  /\ selectedDate_B # ""
  /\ \E slot \in SlotsB :
       /\ ~isTimeSlotBooked_B(selectedVenue_B, selectedDate_B, slot)
       /\ setSelectedTimeSlot(slot)
  /\ UNCHANGED <<variant, now, varsMount, varsA, varsStore>>

ClickDialogCancel ==
  /\ variant = "B" /\ mounted /\ isBookingDialogOpen
  /\ setIsBookingDialogOpen(FALSE)
  /\ UNCHANGED <<variant, now, varsMount, varsA, varsStore>>

ClickSubmit_B ==
  /\ variant = "B" /\ mounted /\ isBookingDialogOpen /\ selectedVenue_B # null
  /\ selectedDate_B # "" /\ selectedTimeSlot_B # ""     \* the button is enabled
  /\ Len(madeHere_B) < MaxBookings
  /\ \E data \in BookingFormData :
       /\ FormValid_B(data)
       /\ onSubmitBooking(data)
  /\ UNCHANGED <<variant, now, varsMount, varsA, varsStore>>

ClickApproveReject ==
  /\ variant = "B" /\ mounted /\ ~isBookingDialogOpen /\ activeTab_B = "bookings"
  /\ \E i \in DOMAIN bookings_B, status \in {"approved", "rejected"} :
       /\ ApproveRejectShown(bookings_B[i])
       /\ updateBookingStatus(bookings_B[i].id, status)
  /\ UNCHANGED <<variant, now, varsMount, varsA, varsStore>>

ClickDelete ==
  /\ variant = "B" /\ mounted /\ ~isBookingDialogOpen /\ activeTab_B = "bookings"
  /\ \E i \in DOMAIN bookings_B :
       /\ DeleteShown(bookings_B[i])
       /\ deleteBooking(bookings_B[i].id)
  /\ UNCHANGED <<variant, now, varsMount, varsA, varsStore>>

----------------------------------------------------------------------------
(* The clock, the initial state, the specifications *)

\* time passes between two readings of Date.now()
Tick ==
  /\ now < MaxTime
  /\ now' = now + 1
  /\ UNCHANGED <<variant, varsA, varsB, varsStore, varsMount>>

\* The lists variant A can load from 'geeta_university_bookings' when it
\* mounts: nothing, or one booking made in an earlier visit (an approver
\* outside this page may have set it to Approved).
StoredBookingLists ==
  {<<>>} \cup
  {<< [id |-> "booking_0_a1b2c3d4e",
       venueId |-> VENUES[1],
       venueName |-> venueName(VENUES[1]),
       date |-> weekDates[1],
       timeSlot |-> TIME_SLOTS[1],
       bookerName |-> name,
       department |-> MOCK_USER.department,
       purpose |-> <<"B", "M">>,
       status |-> status,
       createdAt |-> toISOString(0)] >> :
     name \in BookerNames, status \in {"Pending", "Approved", "Cancelled"}}

\* What the key can hold when variant A mounts: no value, the empty text, a
\* text that is no JSON, a JSON text that is no array, or a stored list.
StoredValues ==
  {storageNull, storageText("")}
    \cup {storageText(text) : text \in MalformedTexts \cup NonArrayTexts}
    \cup {JSON_stringify(list) : list \in StoredBookingLists}

\* no second tab is open
noTab == [open |-> FALSE]

\* Variant A after its mount effects (load 168-174, save 179-181) and the
\* render they cause, when the key held stored.
\*  - null or '': the list stays [] and the save effect writes it;
\*  - a text JSON.parse rejects: the load effect throws, nothing is rendered
\*    any more; the save effect, which follows in the same component, may or
\*    may not have run;
\*  - a JSON text that is no array: setBookings gets it, the save effect
\*    writes [], and the next render throws in bookings.filter;
\*  - a stored list: it becomes the list, and the save effect rewrites it.
InitA(stored) ==
  /\ savedBookings = stored
  /\ IF stored.kind = "null" \/ stored = storageText("")
     THEN bookings_A = <<>> /\ failed = FALSE /\ storage = JSON_stringify(<<>>)
     ELSE IF stored.kind = "text" /\ stored.text \in MalformedTexts
     THEN /\ bookings_A = <<>> /\ failed = TRUE
          /\ storage \in {stored, JSON_stringify(<<>>)}
     ELSE IF stored.kind = "text"
     THEN bookings_A = <<>> /\ failed = TRUE /\ storage = JSON_stringify(<<>>)
     ELSE /\ bookings_A = JSON_parse(stored) /\ failed = FALSE
          /\ storage = JSON_stringify(JSON_parse(stored))
  /\ activeTab_A = "booking"
  /\ selectedVenue_A = null
  /\ selectedDate_A = ""
  /\ selectedTimeSlot_A = ""
  /\ showBookingForm = FALSE
  /\ bookingForm = [bookerName |-> MOCK_USER.name,
                    department |-> MOCK_USER.department,
                    purpose |-> <<>>]

\* Variant B after the mount effect of useAuth, when the three keys held
\* stored
InitB(stored, initialBookings) ==
  /\ session = stored
  /\ user = checkAuth(stored.isAuthenticated, stored.userName, stored.userType)
  /\ isAuthenticated = (/\ stored.isAuthenticated = "true"
                        /\ stored.userName # ""
                        /\ stored.userType # "")
  /\ isLoading = FALSE
  /\ bookings_B = initialBookings
  /\ selectedVenue_B = null
  /\ selectedDate_B = ""
  /\ selectedTimeSlot_B = ""
  /\ isBookingDialogOpen = FALSE
  /\ activeTab_B = "venues"

\* One of the two components is mounted; the other one's state is never used.
InitFrom(storedValues, sessions) ==
  /\ now = 1
  /\ pc = "mounted"
  /\ queued = <<>>
  /\ background = noTab
  /\ \/ /\ variant = "A"
        /\ \E stored \in storedValues : InitA(stored)
        /\ InitB(noSession, seededBookings)
     \/ /\ variant = "B"
        /\ InitA(storageNull)
        /\ \E stored \in sessions : InitB(stored, seededBookings)

Init == InitFrom(StoredValues, StoredSessions)

Next ==
  \/ Tick
  \/ ClickTab_A
  \/ ClickVenueCard
  \/ ClickDay
  \/ ClickTimeSlot_A
  \/ TypeInForm
  \/ ClickFormCancel
  \/ ClickSubmit_A
  \/ ClickCancelBooking
  \/ ClickTab_B
  \/ ClickLogout
  \/ ClickBookThisVenue
  \/ ChangeDate
  \/ ClickTimeSlot_B
  \/ ClickDialogCancel
  \/ ClickSubmit_B
  \/ ClickApproveReject
  \/ ClickDelete

\* the page driven through the controls it renders
Spec == Init /\ [][Next]_vars

----------------------------------------------------------------------------
(* The handlers called directly, with any argument *)

\* an id that no booking has
missingId == "booking_0_missing"

CallSelect_A ==
  /\ variant = "A" /\ mounted /\ ~failed
  /\ \/ \E venue \in VenuesA : handleVenueSelect(venue)
     \/ \E date \in DatesA : handleDateSelect(date)
     \/ \E slot \in SlotsA : handleTimeSlotSelect(slot)
  /\ UNCHANGED <<variant, now, varsMount, varsB, varsStore>>

CallSetBookingForm ==
  /\ variant = "A" /\ mounted /\ ~failed
  /\ \/ \E name \in BookerNames : setBookingForm("bookerName", name)
     \/ \E purpose \in Purposes : setBookingForm("purpose", purpose)
  /\ UNCHANGED <<variant, now, varsMount, varsB, varsStore>>

CallHandleBookingSubmit ==
  /\ variant = "A" /\ mounted /\ ~failed
  /\ Len(madeHere_A) < MaxDirectBookings
  /\ \E id \in NewBookingIds : handleBookingSubmit(id)
  /\ saveEffect(bookings_A' # bookings_A)
  /\ UNCHANGED <<variant, now, varsMount, varsB, savedBookings, failed>>

CallHandleCancelBooking ==
  /\ variant = "A" /\ mounted /\ ~failed
  /\ \E bookingId \in {bookings_A[i].id : i \in DOMAIN bookings_A} \cup {missingId} :
       handleCancelBooking(bookingId)
  /\ saveEffect(TRUE)
  /\ UNCHANGED <<variant, now, varsMount, varsB, savedBookings, failed>>

CallSelect_B ==
  /\ variant = "B" /\ mounted
  /\ \/ \E venue \in VenuesB : handleBookVenue(venue)
     \/ \E value \in DatesB \cup {""} : setSelectedDate(value)
     \/ \E slot \in SlotsB : setSelectedTimeSlot(slot)
     \/ setIsBookingDialogOpen(FALSE)
  /\ UNCHANGED <<variant, now, varsMount, varsA, varsStore>>

CallOnSubmitBooking ==
  /\ variant = "B" /\ mounted
  /\ Len(madeHere_B) < MaxDirectBookings
  /\ \E data \in BookingFormData : onSubmitBooking(data)
  /\ UNCHANGED <<variant, now, varsMount, varsA, varsStore>>

CallUpdateBookingStatus ==
  /\ variant = "B" /\ mounted
  /\ \E bookingId \in {bookings_B[i].id : i \in DOMAIN bookings_B} \cup {missingId},
        status \in {"approved", "rejected"} :
       updateBookingStatus(bookingId, status)
  /\ UNCHANGED <<variant, now, varsMount, varsA, varsStore>>

CallDeleteBooking ==
  /\ variant = "B" /\ mounted
  /\ \E bookingId \in {bookings_B[i].id : i \in DOMAIN bookings_B} \cup {missingId} :
       deleteBooking(bookingId)
  /\ UNCHANGED <<variant, now, varsMount, varsA, varsStore>>

NextHandlers ==
  \/ Tick
  \/ CallSelect_A
  \/ CallSetBookingForm
  \/ CallHandleBookingSubmit
  \/ CallHandleCancelBooking
  \/ CallSelect_B
  \/ CallOnSubmitBooking
  \/ CallUpdateBookingStatus
  \/ CallDeleteBooking

\* The handlers exercised directly, outside the rendered controls.  No
\* handler reads the role, so the session is the one of the department head.
InitHandlers ==
  InitFrom(StoredValues,
           {s \in StoredSessions : s.isAuthenticated = "true" /\ s.userType = "hod"
                                     /\ s.userName # ""})

SpecHandlers == InitHandlers /\ [][NextHandlers]_vars

----------------------------------------------------------------------------
(* The conflict checker on any list, in any order *)

\* the longest list handed to the conflict checker
MaxListLen == 2

Statuses_A == {"Pending", "Approved", "Cancelled"}
Statuses_B == {"pending", "approved", "rejected"}

\* every list of up to MaxListLen bookings over the venues, days and slots
\* in use, the i-th booking made at clock value i of an earlier visit
AnyBookings_A ==
  UNION {
    {[i \in 1..n |->
        [id |-> generateBookingId(i, "a1b2c3d4e"),
         venueId |-> key[i][1],
         venueName |-> venueName(key[i][1]),
         date |-> weekDates[key[i][2]],
         timeSlot |-> key[i][3],
         bookerName |-> MOCK_USER.name,
         department |-> MOCK_USER.department,
         purpose |-> <<"B", "M">>,
         status |-> key[i][4],
         createdAt |-> toISOString(0)]] :
       key \in [1..n -> VenuesA \X DatesA \X SlotsA \X Statuses_A]} :
    n \in 0..MaxListLen}

AnyBookings_B ==
  UNION {
    {[i \in 1..n |->
        [id |-> DateNowToString(i),
         venueId |-> key[i][1],
         venueName |-> venueName(key[i][1]),
         date |-> key[i][2],
         timeSlot |-> key[i][3],
         purpose |-> <<"B", "M">>,
         bookedBy |-> "Dr. Smith",
         status |-> key[i][4],
         attendees |-> 25,
         requirements |-> "",
         contactEmail |-> "dr.smith@geeta.edu",
         department |-> "Computer Science"]] :
       key \in [1..n -> VenuesB \X DatesB \X SlotsB \X Statuses_B]} :
    n \in 0..MaxListLen}

InitConflict ==
  /\ now = 1
  /\ pc = "mounted"
  /\ queued = <<>>
  /\ background = noTab
  /\ \/ /\ variant = "A"
        /\ \E list \in AnyBookings_A : InitA(JSON_stringify(list))
        /\ InitB(noSession, seededBookings)
     \/ /\ variant = "B"
        /\ InitA(storageNull)
        /\ \E list \in AnyBookings_B : InitB(noSession, list)

\* list with the entries at positions i and j exchanged
swap(list, i, j) ==
  [k \in DOMAIN list |-> IF k = i THEN list[j] ELSE IF k = j THEN list[i] ELSE list[k]]

Reorder_A ==
  /\ variant = "A" /\ mounted /\ ~failed
  /\ \E i, j \in DOMAIN bookings_A : i < j /\ bookings_A' = swap(bookings_A, i, j)
  /\ UNCHANGED <<variant, now, varsMount, activeTab_A, selectedVenue_A, selectedDate_A,
                 selectedTimeSlot_A, showBookingForm, bookingForm, varsB,
                 varsStore>>

Reorder_B ==
  /\ variant = "B" /\ mounted
  /\ \E i, j \in DOMAIN bookings_B : i < j /\ bookings_B' = swap(bookings_B, i, j)
  /\ UNCHANGED <<variant, now, varsMount, varsA, varsAuth, selectedVenue_B, selectedDate_B,
                 selectedTimeSlot_B, isBookingDialogOpen, activeTab_B, varsStore>>

NextConflict == Reorder_A \/ Reorder_B

\* isTimeSlotBooked applied to every list, and to every reordering of it
SpecConflict == InitConflict /\ [][NextConflict]_vars

----------------------------------------------------------------------------
(* The page from its construction: the mount effects, and a reload *)

\* What a setBookings call of the load effect hands over: JSON.parse of the
\* stored text, an array of bookings or a value that is no array.
parsed(value) ==
  IF value.kind = "array"
  THEN [array |-> TRUE, list |-> JSON_parse(value)]
  ELSE [array |-> FALSE, list |-> <<>>]

\* The load effect.  It runs once after the first render, and once more
\* (pc = "load2") where the build runs the mount effects twice.
RunLoadEffect ==
  /\ variant = "A" /\ pc \in {"load", "load2"}
  /\ savedBookings' = IF pc = "load" THEN storage ELSE savedBookings
  /\ LET next == IF pc = "load" THEN "save" ELSE "save2"
     IN IF storage.kind = "null" \/ storage = storageText("")
        THEN \* if (savedBookings) is false
             /\ queued' = queued /\ failed' = failed /\ pc' = next
        ELSE IF storage.kind = "text" /\ storage.text \in MalformedTexts
        THEN \* JSON.parse throws; the save effect of the same component
             \* may or may not run after it
             /\ queued' = queued /\ failed' = TRUE
             /\ pc' \in {next, "mounted"}
        ELSE /\ queued' = Append(queued, parsed(storage))
             /\ failed' = failed /\ pc' = next
  /\ UNCHANGED <<variant, now, varsA, varsB, storage, background>>

\* The save effect after the first render: bookings is the [] of useState.
\* Where the build runs the mount effects twice, the load effect follows
\* once more.
RunSaveEffect ==
  /\ variant = "A" /\ pc \in {"save", "save2"}
  /\ UNCHANGED varsA
  /\ saveEffect(TRUE)
  /\ pc' \in IF failed THEN {"mounted"}
             ELSE IF pc = "save" THEN {"load2", "render"}
             ELSE {"render"}
  /\ UNCHANGED <<variant, now, varsB, savedBookings, failed, queued, background>>

\* The render after the mount effects: the queued setBookings calls are
\* applied in order, the last one giving the list, and the save effect runs
\* again as bookings is another array.  A value that is no array makes the
\* render throw in bookings.filter.
Render ==
  /\ variant = "A" /\ pc = "render"
  /\ IF queued = <<>>
     THEN UNCHANGED <<varsA, storage, failed>>
     ELSE IF queued[Len(queued)].array
     THEN /\ bookings_A' = queued[Len(queued)].list
          /\ saveEffect(TRUE)
          /\ UNCHANGED <<activeTab_A, selectedVenue_A, selectedDate_A,
                         selectedTimeSlot_A, showBookingForm, bookingForm,
                         failed>>
     ELSE /\ failed' = TRUE
          /\ UNCHANGED <<varsA, storage>>
  /\ queued' = <<>>
  /\ pc' = "mounted"
  /\ UNCHANGED <<variant, now, varsB, savedBookings, background>>

\* The mount effect of useAuth: checkAuth
RunCheckAuth ==
  /\ variant = "B" /\ pc = "checkAuth"
  /\ IF /\ session.isAuthenticated = "true"
        /\ session.userName # ""
        /\ session.userType # ""
     THEN /\ isAuthenticated' = TRUE
          /\ user' = [username |-> session.userName,
                      userType |-> session.userType]
     ELSE UNCHANGED <<isAuthenticated, user>>
  /\ isLoading' = FALSE
  /\ pc' = "mounted"
  /\ UNCHANGED <<variant, now, varsA, varsStore, queued, background, session,
                 bookings_B, selectedVenue_B, selectedDate_B,
                 selectedTimeSlot_B, isBookingDialogOpen, activeTab_B>>

\* The browser reloads the page of variant B: the component is constructed
\* again, with the initial value of every useState; local storage is kept.
\* (A reload of variant A is a construction over the stored value, which
\* InitStartup covers.)
Reload ==
  /\ variant = "B" /\ mounted
  /\ isAuthenticated' = FALSE
  /\ user' = nullUser
  /\ isLoading' = TRUE
  /\ bookings_B' = seededBookings
  /\ selectedVenue_B' = null
  /\ selectedDate_B' = ""
  /\ selectedTimeSlot_B' = ""
  /\ isBookingDialogOpen' = FALSE
  /\ activeTab_B' = "venues"
  /\ pc' = "checkAuth"
  /\ UNCHANGED <<variant, now, varsA, varsStore, queued, background, session>>

\* what the key holds when the construction of variant A is followed step
\* by step: no value, the empty text, a text that is no JSON, a JSON text
\* that is no array, the empty list, or the list of one pending booking
StartupStoredValues ==
  {stored \in StoredValues :
     stored.kind = "array" =>
       \A booking \in Range(JSON_parse(stored)) :
         /\ booking.status = "Pending"
         /\ booking.bookerName = MOCK_USER.name}

\* One of the two components as it is constructed, before its effects run
InitStartup ==
  /\ now = 1
  /\ queued = <<>>
  /\ background = noTab
  /\ \/ /\ variant = "A"
        /\ pc = "load"
        /\ storage \in StartupStoredValues
        /\ savedBookings = storageNull
        /\ failed = FALSE
        /\ bookings_A = <<>>
        /\ activeTab_A = "booking"
        /\ selectedVenue_A = null
        /\ selectedDate_A = ""
        /\ selectedTimeSlot_A = ""
        /\ showBookingForm = FALSE
        /\ bookingForm = [bookerName |-> MOCK_USER.name,
                          department |-> MOCK_USER.department,
                          purpose |-> <<>>]
        /\ InitB(noSession, seededBookings)
     \/ /\ variant = "B"
        /\ pc = "checkAuth"
        /\ InitA(storageNull)
        /\ session \in StoredSessions
        /\ isAuthenticated = FALSE
        /\ user = nullUser
        /\ isLoading = TRUE
        /\ bookings_B = seededBookings
        /\ selectedVenue_B = null
        /\ selectedDate_B = ""
        /\ selectedTimeSlot_B = ""
        /\ isBookingDialogOpen = FALSE
        /\ activeTab_B = "venues"

NextStartup ==
  \/ RunLoadEffect
  \/ RunSaveEffect
  \/ Render
  \/ RunCheckAuth
  \/ Reload
  \/ Next

\* the page from its construction, through its mount effects, its controls
\* and reloads
SpecStartup == InitStartup /\ [][NextStartup]_vars

----------------------------------------------------------------------------
(* Variant A in two tabs of one browser *)

\* The two tabs share local storage and the clock.  Each has its own
\* component: the variables of variant A are those of the tab in front, the
\* only one that takes input, and background holds those of the other tab.
tabInFront ==
  [open |-> TRUE,
   activeTab |-> activeTab_A,
   selectedVenue |-> selectedVenue_A,
   selectedDate |-> selectedDate_A,
   selectedTimeSlot |-> selectedTimeSlot_A,
   bookings |-> bookings_A,
   showBookingForm |-> showBookingForm,
   bookingForm |-> bookingForm,
   savedBookings |-> savedBookings]

\* the booking list of the tab that is not in front
otherBookings == IF background.open THEN background.bookings ELSE <<>>

\* The page is opened in a second tab, which comes to the front: its
\* component is constructed and runs its mount effects over the stored list.
OpenSecondTab ==
  /\ variant = "A" /\ mounted /\ ~failed
  /\ ~background.open
  /\ background' = tabInFront
  /\ savedBookings' = storage
  /\ bookings_A' = JSON_parse(storage)
  /\ saveEffect(TRUE)
  /\ activeTab_A' = "booking"
  /\ selectedVenue_A' = null
  /\ selectedDate_A' = ""
  /\ selectedTimeSlot_A' = ""
  /\ showBookingForm' = FALSE
  /\ bookingForm' = [bookerName |-> MOCK_USER.name,
                     department |-> MOCK_USER.department,
                     purpose |-> <<>>]
  /\ UNCHANGED <<variant, now, varsB, failed, pc, queued>>

\* the user brings the other tab to the front
SwitchTab ==
  /\ variant = "A" /\ mounted /\ ~failed
  /\ background.open
  /\ background' = tabInFront
  /\ activeTab_A' = background.activeTab
  /\ selectedVenue_A' = background.selectedVenue
  /\ selectedDate_A' = background.selectedDate
  /\ selectedTimeSlot_A' = background.selectedTimeSlot
  /\ bookings_A' = background.bookings
  /\ showBookingForm' = background.showBookingForm
  /\ bookingForm' = background.bookingForm
  /\ savedBookings' = background.savedBookings
  /\ UNCHANGED <<variant, now, varsB, storage, failed, pc, queued>>

\* the venues and slots picked where two tabs are open
TabVenues == {VENUES[1]}
TabSlots == {TIME_SLOTS[1]}

\* the wizard of the tab in front
SelectInTab ==
  /\ variant = "A" /\ mounted /\ ~failed /\ activeTab_A = "booking"
  /\ \/ \E venue \in TabVenues : handleVenueSelect(venue)
     \/ \E date \in DatesA : selectedVenue_A # null /\ handleDateSelect(date)
     \/ \E slot \in TabSlots :
          /\ selectedVenue_A # null /\ selectedDate_A # ""
          /\ ~isTimeSlotBooked_A(selectedVenue_A, selectedDate_A, slot)
          /\ handleTimeSlotSelect(slot)
  /\ UNCHANGED <<variant, now, varsMount, varsB, varsStore>>

TypeInTab ==
  /\ variant = "A" /\ mounted /\ ~failed /\ activeTab_A = "booking" /\ showBookingForm
  /\ setBookingForm("purpose", <<"B", "M">>)
  /\ UNCHANGED <<variant, now, varsMount, varsB, varsStore>>

\* Submit in the tab in front.  The random part of the id makes it differ
\* from the ids made in the other tab as well.
SubmitInTab ==
  /\ variant = "A" /\ mounted /\ ~failed /\ activeTab_A = "booking" /\ showBookingForm
  /\ FormValid_A
  /\ Len(madeHere_A) < MaxBookings
  /\ \E id \in NewBookingIds \ {otherBookings[i].id : i \in DOMAIN otherBookings} :
       handleBookingSubmit(id)
  /\ saveEffect(bookings_A' # bookings_A)
  /\ UNCHANGED <<variant, now, varsMount, varsB, savedBookings, failed>>

CancelInTab ==
  /\ variant = "A" /\ mounted /\ ~failed /\ activeTab_A = "my-bookings"
  /\ \E i \in DOMAIN userBookings :
       /\ CancelButtonShown(userBookings[i])
       /\ handleCancelBooking(userBookings[i].id)
  /\ saveEffect(TRUE)
  /\ UNCHANGED <<variant, now, varsMount, varsB, savedBookings, failed>>

InitTabs ==
  /\ variant = "A"
  /\ InitFrom({storageNull} \cup {stored \in StartupStoredValues : stored.kind = "array"},
              {noSession})

NextTabs ==
  \/ Tick
  \/ ClickTab_A
  \/ OpenSecondTab
  \/ SwitchTab
  \/ SelectInTab
  \/ TypeInTab
  \/ SubmitInTab
  \/ CancelInTab

\* one tab, then two, used in turn
SpecTabs == InitTabs /\ [][NextTabs]_vars

----------------------------------------------------------------------------
(* Properties *)

triple(booking) == <<booking.venueId, booking.date, booking.timeSlot>>

\* booking a is booking b with, at most, another status
sameButStatus(a, b) == [a EXCEPT !.status = b.status] = b

\* C1: variant A, driven through its controls: no two bookings with a status
\* other than 'Cancelled' have the same venueId, date and timeSlot.
C1_NoDoubleBooking_A ==
  \A i, j \in DOMAIN bookings_A :
    (/\ i # j
     /\ bookings_A[i].status # "Cancelled"
     /\ bookings_A[j].status # "Cancelled")
      => triple(bookings_A[i]) # triple(bookings_A[j])

\* a slot was booked, cancelled and booked again, with a third booking
\* elsewhere
C1_Witness ==
  /\ variant = "A"
  /\ \E i, j \in DOMAIN bookings_A :
       /\ i < j
       /\ triple(bookings_A[i]) = triple(bookings_A[j])
       /\ bookings_A[i].status = "Cancelled"
       /\ bookings_A[j].status = "Pending"
       /\ bookings_A[i].createdAt # toISOString(0)

\* C2: variant B, driven through its controls from the two seeded bookings:
\* no two bookings with a status other than 'rejected' have the same venueId,
\* date and timeSlot.
C2_NoDoubleBooking_B ==
  \A i, j \in DOMAIN bookings_B :
    (/\ i # j
     /\ bookings_B[i].status # "rejected"
     /\ bookings_B[j].status # "rejected")
      => triple(bookings_B[i]) # triple(bookings_B[j])

\* C3: isTimeSlotBooked(venueId, date, timeSlot) is true exactly when the
\* list holds a booking with these three fields whose status is not
\* 'Cancelled' (A) / 'rejected' (B), and exchanging two entries of the list
\* does not change its result.
C3_ConflictChecker ==
  /\ [](/\ \A v \in VenuesA, d \in DatesA, s \in SlotsA :
             isTimeSlotBooked_A(v, weekDates[d], s)
               <=> \E b \in Range(bookings_A) :
                     /\ triple(b) = <<v, weekDates[d], s>>
                     /\ b.status # "Cancelled"
        /\ \A v \in VenuesB, d \in DatesB, s \in SlotsB :
             isTimeSlotBooked_B(v, d, s)
               <=> \E b \in Range(bookings_B) :
                     /\ triple(b) = <<v, d, s>>
                     /\ b.status # "rejected")
  /\ [][/\ \A v \in VenuesA, d \in DatesA, s \in SlotsA :
             isTimeSlotBooked_A(v, weekDates[d], s)'
               = isTimeSlotBooked_A(v, weekDates[d], s)
        /\ \A v \in VenuesB, d \in DatesB, s \in SlotsB :
             isTimeSlotBooked_B(v, d, s)' = isTimeSlotBooked_B(v, d, s)]_vars

\* after two entries were exchanged, a rejected booking stands before an
\* approved one on the same slot, and the slot is reported as booked
C3_Witness ==
  /\ variant = "B"
  /\ Len(bookings_B) >= 2
  /\ bookings_B[1].id = DateNowToString(2)
  /\ bookings_B[2].id = DateNowToString(1)
  /\ bookings_B[1].status = "rejected"
  /\ bookings_B[2].status = "approved"
  /\ triple(bookings_B[1]) = triple(bookings_B[2])
  /\ isTimeSlotBooked_B(bookings_B[1].venueId, bookings_B[1].date,
                        bookings_B[1].timeSlot)

\* C4: when the form is submitted while the selected venue, date and slot
\* are held by a booking that is neither cancelled nor rejected, the booking
\* list is left unchanged.
C4_SubmitRejectsDoubleBooking ==
  [][/\ (/\ ClickSubmit_A
         /\ isTimeSlotBooked_A(selectedVenue_A, selectedDate_A, selectedTimeSlot_A))
          => bookings_A' = bookings_A
     /\ (/\ ClickSubmit_B
         /\ isTimeSlotBooked_B(selectedVenue_B, selectedDate_B, selectedTimeSlot_B))
          => bookings_B' = bookings_B]_vars

\* C5: handleCancelBooking(bookingId) sets a booking with that id to
\* 'Cancelled' when it is 'Pending', and changes no status otherwise.
C5_CancelOnlyPending ==
  [][\A bookingId \in {bookings_A[i].id : i \in DOMAIN bookings_A} \cup {missingId} :
       (variant = "A" /\ handleCancelBooking(bookingId))
         => \A i \in DOMAIN bookings_A :
              bookings_A'[i].status =
                IF bookings_A[i].id = bookingId /\ bookings_A[i].status = "Pending"
                THEN "Cancelled"
                ELSE bookings_A[i].status]_vars

\* C6: updateBookingStatus on a booking that is 'approved' or 'rejected'
\* does not change its status.
C6_UpdateKeepsTerminal ==
  [][\A bookingId \in {bookings_B[i].id : i \in DOMAIN bookings_B},
        status \in {"approved", "rejected"} :
       (variant = "B" /\ updateBookingStatus(bookingId, status))
         => \A i \in DOMAIN bookings_B :
              bookings_B[i].status # "pending"
                => bookings_B'[i].status = bookings_B[i].status]_vars

C8_StatusChangeNeedsHod ==
  [][(variant = "B" /\ user.userType # "hod")
       => \/ /\ Len(bookings_B') >= Len(bookings_B)
             /\ \A i \in DOMAIN bookings_B :
                  bookings_B'[i].status = bookings_B[i].status
          \/ /\ Len(bookings_B') < Len(bookings_B)
             /\ \E id \in {bookings_B[i].id : i \in DOMAIN bookings_B} :
                  bookings_B' = SelectSeq(bookings_B, LAMBDA b : b.id # id)]_vars

\* a faculty member has submitted a booking and looks at the list, where
\* the seeded booking 2 is still pending
C8_Witness ==
  /\ variant = "B"
  /\ user.userType = "faculty"
  /\ activeTab_B = "bookings"
  /\ Len(madeHere_B) >= 1
  /\ \E i \in DOMAIN bookings_B :
       bookings_B[i].id = "2" /\ bookings_B[i].status = "pending"

\* C9: variant B: a booking leaves the list only in a step that removes
\* exactly the bookings with one id, the id of a booking whose bookedBy is
\* the session's username or whose viewer is 'hod'; every other booking
\* stays, with its fields and in its order.
C9_DeleteFrame ==
  [][variant = "B"
       => IF Len(bookings_B') >= Len(bookings_B)
          THEN \A i \in DOMAIN bookings_B :
                 sameButStatus(bookings_B[i], bookings_B'[i])
          ELSE \E i \in DOMAIN bookings_B :
                 /\ \/ (user # nullUser /\ bookings_B[i].bookedBy = user.username)
                    \/ user.userType = "hod"
                 /\ bookings_B' =
                      SelectSeq(bookings_B, LAMBDA b : b.id # bookings_B[i].id)]_vars

\* Dr. Smith, a faculty member, has deleted the seeded booking 1 (his own);
\* the seeded booking 2 is still in the list
C9_Witness ==
  /\ variant = "B"
  /\ user = [username |-> "Dr. Smith", userType |-> "faculty"]
  /\ \A i \in DOMAIN bookings_B : bookings_B[i].id # "1"
  /\ \E i \in DOMAIN bookings_B : bookings_B[i] = seededBookings[2]

\* C10: handleCancelBooking(bookingId) keeps the length and the order of
\* the list, leaves every booking with another id as it is, and changes at
\* most the status of a booking with that id.
C10_CancelFrame ==
  [][\A bookingId \in {bookings_A[i].id : i \in DOMAIN bookings_A} \cup {missingId} :
       (variant = "A" /\ handleCancelBooking(bookingId))
         => /\ Len(bookings_A') = Len(bookings_A)
            /\ \A i \in DOMAIN bookings_A :
                 IF bookings_A[i].id = bookingId
                 THEN sameButStatus(bookings_A[i], bookings_A'[i])
                 ELSE bookings_A'[i] = bookings_A[i]]_vars

\* the booking made in this visit was cancelled; the stored one before it
\* is as it was loaded
C10_Witness ==
  /\ variant = "A"
  /\ Len(bookings_A) = 2
  /\ bookings_A[1] \in {l[1] : l \in StoredBookingLists \ {<<>>}}
  /\ bookings_A[1].status = "Approved"
  /\ bookings_A[2].createdAt # toISOString(0)
  /\ bookings_A[2].status = "Cancelled"

\* C11: variant A started from an empty list and driven through its
\* controls: the first submit gives a list of one Pending booking, and while
\* a booking is Pending no step appends another booking on its venue, date
\* and slot.  (That the slot can be booked again once the booking is
\* cancelled is the state C11_Witness.)
C11_BookCancelRebook ==
  [][(variant = "A" /\ Len(madeHere_A) = Len(bookings_A)
        /\ bookings_A' # bookings_A /\ Len(bookings_A') > Len(bookings_A))
       => /\ Len(bookings_A') = Len(bookings_A) + 1
          /\ bookings_A'[Len(bookings_A')].status = "Pending"
          /\ \A i \in DOMAIN bookings_A :
               /\ bookings_A'[i] = bookings_A[i]
               /\ bookings_A[i].status = "Pending"
                    => triple(bookings_A[i]) # triple(bookings_A'[Len(bookings_A')])
          /\ Len(bookings_A) = 0
               => \A i \in DOMAIN bookings_A' : bookings_A'[i].status = "Pending"]_vars

\* from the empty list: a booking was submitted and cancelled, and the same
\* venue, date and slot were submitted again
C11_Witness ==
  /\ variant = "A"
  /\ savedBookings = storageNull
  /\ Len(bookings_A) = 2
  /\ bookings_A[1].status = "Cancelled"
  /\ bookings_A[2].status = "Pending"
  /\ triple(bookings_A[1]) = triple(bookings_A[2])

\* C12: the submit handler called while the purpose is empty leaves the
\* booking list as it is: handleBookingSubmit with bookingForm.purpose = '',
\* onSubmitBooking(data) with data.purpose = ''.
C12_EmptyPurposeKeepsList ==
  [][/\ \A id \in NewBookingIds :
          (variant = "A" /\ bookingForm.purpose = <<>> /\ handleBookingSubmit(id))
            => bookings_A' = bookings_A
     /\ \A data \in BookingFormData :
          (variant = "B" /\ data.purpose = <<>> /\ onSubmitBooking(data))
            => bookings_B' = bookings_B]_vars

\* C13: handleBookingSubmit called without a venue, a date or a slot, or
\* with a purpose that is empty or white space only, changes neither the
\* booking list nor the selections, the form's visibility or its fields.
C13_InvalidSubmitChangesNothing ==
  [][\A id \in NewBookingIds :
       (/\ variant = "A"
        /\ \/ selectedVenue_A = null
           \/ selectedDate_A = ""
           \/ selectedTimeSlot_A = ""
           \/ \A k \in DOMAIN bookingForm.purpose : bookingForm.purpose[k] = " "
        /\ handleBookingSubmit(id))
         => /\ bookings_A' = bookings_A
            /\ selectedVenue_A' = selectedVenue_A
            /\ selectedDate_A' = selectedDate_A
            /\ selectedTimeSlot_A' = selectedTimeSlot_A
            /\ showBookingForm' = showBookingForm
            /\ bookingForm' = bookingForm]_vars

\* venue, date and slot are chosen and the form is open, and the purpose
\* typed is a single blank
C13_Witness ==
  /\ variant = "A"
  /\ selectedVenue_A # null /\ selectedDate_A # "" /\ selectedTimeSlot_A # ""
  /\ showBookingForm
  /\ bookingForm.purpose = <<" ">>
  /\ bookings_A = <<>>

\* what a submit that went through does to the list of either variant:
\* one booking more, at the end, with the first status and the selected
\* venue, date and slot; the bookings before it as they were
appendsOne(list, list2, status, venue, date, slot) ==
  /\ Len(list2) = Len(list) + 1
  /\ \A i \in DOMAIN list : list2[i] = list[i]
  /\ list2[Len(list2)].status = status
  /\ triple(list2[Len(list2)]) = <<venue, date, slot>>

\* C14, as claimed: a submit that goes through appends one Pending booking
\* on the selected venue, date and slot, keeps the earlier bookings, clears
\* the slot, closes the form, and keeps the selected venue and date; in
\* both variants.
C14_SubmitAppendsKeepsVenueDate ==
  [][/\ \A id \in NewBookingIds :
          (variant = "A" /\ handleBookingSubmit(id) /\ bookings_A' # bookings_A)
            => /\ appendsOne(bookings_A, bookings_A', "Pending", selectedVenue_A,
                             selectedDate_A, selectedTimeSlot_A)
               /\ selectedTimeSlot_A' = "" /\ showBookingForm' = FALSE
               /\ selectedVenue_A' = selectedVenue_A
               /\ selectedDate_A' = selectedDate_A
     /\ \A data \in BookingFormData :
          (variant = "B" /\ onSubmitBooking(data) /\ bookings_B' # bookings_B)
            => /\ appendsOne(bookings_B, bookings_B', "pending", selectedVenue_B,
                             selectedDate_B, selectedTimeSlot_B)
               /\ selectedTimeSlot_B' = "" /\ isBookingDialogOpen' = FALSE
               /\ selectedVenue_B' = selectedVenue_B
               /\ selectedDate_B' = selectedDate_B]_vars

\* C14, amended: the same, where variant A keeps the selected venue and
\* date and variant B clears them together with the slot.
C14_SubmitAppendsAndResets ==
  [][/\ \A id \in NewBookingIds :
          (variant = "A" /\ handleBookingSubmit(id) /\ bookings_A' # bookings_A)
            => /\ appendsOne(bookings_A, bookings_A', "Pending", selectedVenue_A,
                             selectedDate_A, selectedTimeSlot_A)
               /\ selectedTimeSlot_A' = "" /\ showBookingForm' = FALSE
               /\ selectedVenue_A' = selectedVenue_A
               /\ selectedDate_A' = selectedDate_A
     /\ \A data \in BookingFormData :
          (variant = "B" /\ onSubmitBooking(data) /\ bookings_B' # bookings_B)
            => /\ appendsOne(bookings_B, bookings_B', "pending", selectedVenue_B,
                             selectedDate_B, selectedTimeSlot_B)
               /\ selectedTimeSlot_B' = "" /\ isBookingDialogOpen' = FALSE
               /\ selectedVenue_B' = null
               /\ selectedDate_B' = ""]_vars

\* variant B after a submit that went through: the booking is the last of
\* the list, the dialog is closed and nothing is selected
C14_Witness ==
  /\ variant = "B"
  /\ Len(bookings_B) = Len(seededBookings) + 1
  /\ bookings_B[Len(bookings_B)].status = "pending"
  /\ bookings_B[Len(bookings_B)].id = DateNowToString(now)
  /\ ~isBookingDialogOpen
  /\ selectedVenue_B = null /\ selectedDate_B = "" /\ selectedTimeSlot_B = ""

\* C15: variant A: handleVenueSelect(venue) sets the venue, empties the
\* date and the slot and closes the form; handleDateSelect(date) sets the
\* date, empties the slot, closes the form and keeps the venue; neither
\* changes the booking list.
C15_EarlierStepDiscardsLater ==
  [][/\ \A venue \in VenuesA :
          (variant = "A" /\ handleVenueSelect(venue))
            => /\ selectedVenue_A' = venue
               /\ selectedDate_A' = "" /\ selectedTimeSlot_A' = ""
               /\ showBookingForm' = FALSE
               /\ bookings_A' = bookings_A
     /\ \A date \in DatesA :
          (variant = "A" /\ handleDateSelect(date))
            => /\ selectedDate_A' = weekDates[date]
               /\ selectedTimeSlot_A' = ""
               /\ showBookingForm' = FALSE
               /\ selectedVenue_A' = selectedVenue_A
               /\ bookings_A' = bookings_A]_vars

\* a purpose was typed into the open form of a slot, and then the day was
\* clicked again: the date is set, the slot is gone and the form is closed
C15_Witness ==
  /\ variant = "A"
  /\ bookingForm.purpose = <<"B", "M">>
  /\ selectedVenue_A # null /\ selectedDate_A # ""
  /\ selectedTimeSlot_A = ""
  /\ ~showBookingForm
  /\ bookings_A = <<>>

\* C16: variant B: a click on Book This Venue (handleBookVenue) leaves the
\* selected date and slot empty, and a change of the date in the dialog
\* leaves the selected slot empty.
C16_VenueAndDateResetSlot ==
  [][/\ ClickBookThisVenue => selectedDate_B' = "" /\ selectedTimeSlot_B' = ""
     /\ (ChangeDate /\ selectedDate_B' # selectedDate_B)
          => selectedTimeSlot_B' = ""]_vars

\* C17: variant A: handleTimeSlotSelect(slot) with a venue and a date
\* selected leaves the slot, the form and the list as they are when a
\* booking that is not cancelled holds the venue, date and slot, and
\* otherwise selects the slot and opens the form; without a venue or a date
\* it changes nothing.
C17_SlotSelectChecksConflict ==
  [][\A slot \in SlotsA :
       (variant = "A" /\ handleTimeSlotSelect(slot))
         => IF selectedVenue_A = null \/ selectedDate_A = ""
            THEN varsA' = varsA
            ELSE IF \E i \in DOMAIN bookings_A :
                      /\ triple(bookings_A[i])
                           = <<selectedVenue_A, selectedDate_A, slot>>
                      /\ bookings_A[i].status # "Cancelled"
            THEN /\ selectedTimeSlot_A' = selectedTimeSlot_A
                 /\ showBookingForm' = showBookingForm
                 /\ bookings_A' = bookings_A
            ELSE /\ selectedTimeSlot_A' = slot
                 /\ showBookingForm' = TRUE
                 /\ bookings_A' = bookings_A]_vars

\* one slot of the selected venue and day is held by a booking, another one
\* is selected and its form is open
C17_Witness ==
  /\ variant = "A"
  /\ selectedVenue_A # null /\ selectedDate_A # ""
  /\ selectedTimeSlot_A # "" /\ showBookingForm
  /\ \E i \in DOMAIN bookings_A :
       /\ bookings_A[i].venueId = selectedVenue_A
       /\ bookings_A[i].date = selectedDate_A
       /\ bookings_A[i].timeSlot # selectedTimeSlot_A
       /\ bookings_A[i].status = "Approved"

\* C18: variant A driven through its controls: the form is shown only with
\* a slot selected, a slot is selected only with a date selected, and a date
\* is selected only with a venue selected.
C18_StepsUnlockInOrder ==
  variant = "A"
    => /\ showBookingForm => selectedTimeSlot_A # ""
       /\ selectedTimeSlot_A # "" => selectedDate_A # ""
       /\ selectedDate_A # "" => selectedVenue_A # null

\* the form of a selected slot was closed with its Cancel button: venue,
\* date and slot are still selected
C18_Witness ==
  /\ variant = "A"
  /\ selectedVenue_A # null /\ selectedDate_A # "" /\ selectedTimeSlot_A # ""
  /\ ~showBookingForm
  /\ activeTab_A = "booking"

\* C19: variant A, while it is rendered: the text stored under
\* 'geeta_university_bookings' is the serialization of the list in memory,
\* and reads back as the same bookings in the same order.
C19_StorageMirrorsList ==
  (variant = "A" /\ ~failed)
    => /\ storage = JSON_stringify(bookings_A)
       /\ JSON_parse(storage) = bookings_A

\* from nothing stored: two bookings were submitted, the first was
\* cancelled, and the stored text holds both, the first as Cancelled
C19_Witness ==
  /\ variant = "A" /\ ~failed
  /\ savedBookings = storageNull
  /\ Len(bookings_A) = 2
  /\ bookings_A[1].status = "Cancelled"
  /\ storage.kind = "array"
  /\ Len(storage.items) = 2
  /\ storage.items[1][9] = <<"status", "Cancelled">>

\* C20: variant A mounted while 'geeta_university_bookings' is absent or
\* holds a text that is not a serialized array: the component is rendered
\* (no error) and its booking list starts empty.
C20_LoadToleratesMalformed ==
  (/\ variant = "A"
   /\ savedBookings.kind # "array"
   /\ Len(madeHere_A) = 0)
    => ~failed /\ bookings_A = <<>>

\* C21: variant B: the booking list survives a reload of the page: after
\* the reload the list is the list of before, so a booking that was
\* submitted, approved, rejected or deleted is found in that same state.
C21_ReloadKeepsBookings ==
  [][(variant = "B" /\ Reload) => bookings_B' = bookings_B]_vars

\* C22: in both variants the bookings of the list have pairwise distinct
\* ids, no step changes the id of a booking of the list, and a booking that
\* is added gets an id that no booking of the list has.
C22_IdsUniqueNeverReused ==
  [][/\ variant = "A" =>
          /\ \A i, j \in DOMAIN bookings_A' :
               i # j => bookings_A'[i].id # bookings_A'[j].id
          /\ Len(bookings_A') = Len(bookings_A) =>
               \A i \in DOMAIN bookings_A : bookings_A'[i].id = bookings_A[i].id
          /\ Len(bookings_A') > Len(bookings_A) =>
               \A i \in DOMAIN bookings_A :
                 bookings_A'[Len(bookings_A')].id # bookings_A[i].id
     /\ variant = "B" =>
          /\ \A i, j \in DOMAIN bookings_B' :
               i # j => bookings_B'[i].id # bookings_B'[j].id
          /\ Len(bookings_B') = Len(bookings_B) =>
               \A i \in DOMAIN bookings_B : bookings_B'[i].id = bookings_B[i].id
          /\ Len(bookings_B') > Len(bookings_B) =>
               \A i \in DOMAIN bookings_B :
                 bookings_B'[Len(bookings_B')].id # bookings_B[i].id]_vars

\* C23: variant A: no step shortens the booking list, and every booking of
\* the list is found after the step at the same position with the same id,
\* venueId, date and timeSlot.
C23_NeverHardDeletes ==
  [][variant = "A" =>
       /\ Len(bookings_A') >= Len(bookings_A)
       /\ \A i \in DOMAIN bookings_A :
            /\ i \in DOMAIN bookings_A'
            /\ bookings_A'[i].id = bookings_A[i].id
            /\ triple(bookings_A'[i]) = triple(bookings_A[i])]_vars

\* a booking of an earlier visit is still the first of the list, after a
\* second booking was submitted and then cancelled
C23_Witness ==
  /\ variant = "A" /\ ~failed
  /\ savedBookings.kind = "array"
  /\ Len(bookings_A) = 2
  /\ bookings_A[1] = JSON_parse(savedBookings)[1]
  /\ bookings_A[2].createdAt # toISOString(0)
  /\ bookings_A[2].status = "Cancelled"

\* the ids of the bookings a stored value holds: none where it is no
\* serialized array
storedIds(value) ==
  IF value.kind = "array"
  THEN {JSON_parse(value)[i].id : i \in DOMAIN JSON_parse(value)}
  ELSE {}

\* C24: variant A in two tabs over one storage key: a step that changes
\* the stored value is a step of the tab in front and leaves there the
\* serialization of that tab's list, whatever was stored before, so that no
\* booking that only the other tab has is stored after it; the other tab's
\* list is left as it is; and after every step the stored value is the
\* list of one of the two tabs.
C24_LastWriteWins ==
  [][variant = "A" =>
       /\ storage' # storage =>
            /\ storage' = JSON_stringify(bookings_A')
            /\ otherBookings' = otherBookings
            /\ \A i \in DOMAIN otherBookings :
                 (\A j \in DOMAIN bookings_A' :
                    bookings_A'[j].id # otherBookings[i].id)
                   => otherBookings[i].id \notin storedIds(storage')
       /\ storage' \in {JSON_stringify(bookings_A'),
                        JSON_stringify(otherBookings')}]_vars

\* both tabs were open with nothing stored, each submitted a booking, and
\* the stored value holds the booking of the tab in front only
C24_Witness ==
  /\ variant = "A"
  /\ background.open
  /\ background.savedBookings = JSON_stringify(<<>>)
  /\ savedBookings = JSON_stringify(<<>>)
  /\ Len(background.bookings) = 1
  /\ Len(bookings_A) = 1
  /\ bookings_A[1].id # background.bookings[1].id
  /\ storedIds(storage) = {bookings_A[1].id}

\* C25: useAuth: the mount effect leaves isLoading false and, exactly when
\* the stored flag is 'true' and the stored username and role tag are not
\* empty, isAuthenticated true and user the stored username and role tag,
\* and otherwise isAuthenticated false and user null; a click on Logout
\* removes the three keys and leaves isAuthenticated false and user null;
\* after every step user is not null if and only if isAuthenticated is true.
C25_SessionFromStorage ==
  [][variant = "B" =>
       /\ (pc = "checkAuth" /\ pc' = "mounted") =>
            /\ isLoading' = FALSE
            /\ IF /\ session.isAuthenticated = "true"
                  /\ session.userName # ""
                  /\ session.userType # ""
               THEN /\ isAuthenticated' = TRUE
                    /\ user' = [username |-> session.userName,
                                userType |-> session.userType]
               ELSE /\ isAuthenticated' = FALSE
                    /\ user' = nullUser
       /\ ClickLogout =>
            /\ session' = noSession
            /\ isAuthenticated' = FALSE
            /\ user' = nullUser
       /\ (user' # nullUser) <=> (isAuthenticated' = TRUE)]_vars

\* a logged-in user submitted a booking and then logged out: the keys are
\* gone, nobody is authenticated, and the booking carries the username
C25_Witness ==
  /\ variant = "B" /\ mounted
  /\ session = noSession
  /\ isAuthenticated = FALSE /\ user = nullUser /\ isLoading = FALSE
  /\ \E i \in DOMAIN madeHere_B : madeHere_B[i].bookedBy = "Dr. Smith"

\* C26: variant A, one tab, driven through its controls: while a slot is
\* selected, no booking with a status other than 'Cancelled' holds the
\* selected venue, date and slot.
C26_SelectedSlotIsFree ==
  (variant = "A" /\ selectedTimeSlot_A # "")
    => \A i \in DOMAIN bookings_A :
         triple(bookings_A[i])
             = <<selectedVenue_A, selectedDate_A, selectedTimeSlot_A>>
           => bookings_A[i].status = "Cancelled"

\* a booking was submitted on the selected venue and day, another slot was
\* selected after it, and its form was closed with the Cancel button
C26_Witness ==
  /\ variant = "A"
  /\ selectedTimeSlot_A # "" /\ ~showBookingForm
  /\ \E i \in DOMAIN madeHere_A :
       /\ madeHere_A[i].venueId = selectedVenue_A
       /\ madeHere_A[i].date = selectedDate_A
       /\ madeHere_A[i].timeSlot # selectedTimeSlot_A
       /\ madeHere_A[i].status = "Pending"

\* C27: variant A: every booking submitted in this visit is one of the rows
\* of My Bookings, where a pending booking has its Cancel button.
C27_SubmittedIsListed ==
  (variant = "A" /\ ~failed)
    => \A i \in DOMAIN madeHere_A : madeHere_A[i] \in Range(userBookings)

\* C28: variant A, one tab, from its construction: every step that writes
\* the key leaves a value that holds every booking id of the value before,
\* and when the mount effects are done the list in memory is the list that
\* was stored before them.
C28_StorageNeverLosesRecord ==
  [][variant = "A" =>
       /\ storedIds(storage) \subseteq storedIds(storage')
       /\ (~mounted /\ mounted' /\ ~failed') =>
            bookings_A' = IF savedBookings'.kind = "array"
                          THEN JSON_parse(savedBookings')
                          ELSE <<>>]_vars

====
